---- MODULE Spec2Model ----
(***************************************************************************)
(* The sharded, incrementally resizing hash table of src/memtable.go       *)
(* (package eagle): memTable, tablePartition and node.                     *)
(*                                                                         *)
(* A bucket chain (node.next links) is a sequence of nodes, head first.    *)
(* A bucket array ([]*node) is a sequence of chains; Go index i is index   *)
(* i + 1 here.  A nil bucket array is the empty sequence.  A nil           *)
(* *ValuePointer is NilPtr.  In Spec and SpecShrink every public call is   *)
(* one atomic action; SpecLocks takes the calls of concurrent goroutines   *)
(* apart into their lock operations and the statements between them.       *)
(* A panic is not recovered anywhere in the package: it ends the process,  *)
(* so no call follows it.                                                  *)
(***************************************************************************)
EXTENDS Integers, Sequences, FiniteSets, TLC

VARIABLES
    partitions,   \* memTable.partitions: partition index -> tablePartition
    panicked,     \* TRUE once a call has panicked (the process is gone)
    ret,          \* the last public call, its arguments and what it returned
    ref,          \* the same calls applied to a table whose resize trigger is off
    writes,       \* per key: the writes applied so far and the newest of them
    scn,          \* how far the calls so far follow the scenario of spec section 8
    loaded,       \* how many filler keys the workload has inserted
    dropped,      \* how many filler keys the workload has deleted again
    locks,        \* memTable.locks: partition index -> the state of its RWMutex
    th            \* per calling goroutine: where it stands in its call, its locals

vars == <<partitions, panicked, ret, ref, writes, scn, loaded, dropped, locks, th>>

----------------------------------------------------------------------------
(* Program constants. *)

initialBucketSize == 4

numPartitions == 16

(* Bounds of the explored workload. *)

\* The calls on the hot keys carry sequence numbers 0..MaxSeq.
MaxSeq == 2

\* Spec inserts up to NFill filler keys: with "d" in another partition, 21 of
\* them in the partition of "a", one more than 5 x initialBucketSize.
NFill == 22

\* The first Warm filler keys of Spec are inserted in one uninterrupted run.
Warm == 20

\* How far the workload of Spec lets nElements run from the live node count.
MaxDrift == 1

\* SpecShrink inserts NLoadS filler keys (97 in the partition of "a", which
\* ends the migration to 32 buckets) and deletes NDropS of them again.
NLoadS == 98

NDropS == 90

\* SpecShrink's remove and get calls start Margin deletions before the last.
Margin == 2

NilPtr == "nil"

HotPointers == {"P1", "P2"}

Seqs == 0..MaxSeq

HotKeys == {"a"}

ReadKeys == {"a", "d", "key6"}

(* The filler keys: "d", routed to partition 2, and then keys routed to the *)
(* partition of "a" (hash >> 28 = 3).                                     *)
Fillers ==
    << "d", "key6", "key41", "key63", "key68", "key85", "key102", "key112", "key124", "key174",
       "key178", "key188", "key209", "key215", "key219", "key231", "key232", "key244", "key254",
       "key281", "key291", "key293", "key300", "key306", "key327", "key329", "key353", "key383",
       "key385", "key394", "key431", "key435", "key449", "key484", "key485", "key489", "key540",
       "key545", "key547", "key566", "key571", "key598", "key615", "key639", "key643", "key654",
       "key660", "key665", "key674", "key677", "key694", "key706", "key708", "key721", "key754",
       "key756", "key772", "key800", "key807", "key812", "key829", "key832", "key854", "key873",
       "key886", "key887", "key895", "key913", "key922", "key929", "key946", "key958", "key977",
       "key990", "key996", "key1068", "key1086", "key1109", "key1129", "key1130", "key1139",
       "key1143", "key1144", "key1172", "key1192", "key1196", "key1210", "key1217", "key1218",
       "key1219", "key1230", "key1247", "key1256", "key1262", "key1266", "key1286", "key1297",
       "key1303", "key1311", "key1315", "key1319", "key1322", "key1325", "key1344", "key1354",
       "key1358", "key1365", "key1385", "key1428", "key1448", "key1456", "key1472", "key1477",
       "key1492", "key1511", "key1519", "key1546", "key1553", "key1558", "key1585", "key1598",
       "key1602", "key1603", "key1636", "key1638", "key1641", "key1659", "key1673", "key1686",
       "key1695", "key1706", "key1710", "key1713", "key1717", "key1718", "key1729", "key1772",
       "key1780", "key1792", "key1800", "key1802", "key1808", "key1814", "key1833", "key1841",
       "key1844", "key1853", "key1876", "key1879", "key1918", "key1926", "key1933", "key1939",
       "key1946", "key1961", "key1974", "key1997", "key2001", "key2009", "key2018", "key2033",
       "key2034", "key2052", "key2061", "key2063", "key2091", "key2133", "key2137", "key2166" >>
\* hashKey of each key of the model: its murmur3 (seed 0) 32-bit digest.  All of
\* them are below 2^31.
KeyHash ==
    [ a |-> 1009084850, d |-> 655955059, key6 |-> 970695783, key41 |-> 850211045, key63 |->
      991498245, key68 |-> 999355623, key85 |-> 877007120, key102 |-> 864307530, key112 |->
      1018010996, key124 |-> 820758991, key174 |-> 1015956919, key178 |-> 1058458134, key188 |->
      853327426, key209 |-> 1024876220, key215 |-> 1016998724, key219 |-> 858105568, key231 |->
      867221035, key232 |-> 1054836151, key244 |-> 1037855493, key254 |-> 1070803041, key281 |->
      1037405868, key291 |-> 885305760, key293 |-> 925969582, key300 |-> 1037371110, key306 |->
      933922812, key327 |-> 1015154850, key329 |-> 882913287, key353 |-> 877471868, key383 |->
      834922398, key385 |-> 833800093, key394 |-> 1011879571, key431 |-> 1022730799, key435 |->
      1028376208, key449 |-> 912753388, key484 |-> 1008646576, key485 |-> 1013232652, key489 |->
      972096508, key540 |-> 884828391, key545 |-> 964453712, key547 |-> 904212054, key566 |->
      859206107, key571 |-> 914807274, key598 |-> 949936841, key615 |-> 902908038, key639 |->
      1031890790, key643 |-> 936139170, key654 |-> 969008436, key660 |-> 888613757, key665 |->
      805447438, key674 |-> 1026266281, key677 |-> 918905180, key694 |-> 1069830108, key706 |->
      923196854, key708 |-> 937042255, key721 |-> 980292230, key754 |-> 926631918, key756 |->
      814885751, key772 |-> 863927675, key800 |-> 912611489, key807 |-> 919069688, key812 |->
      939534936, key829 |-> 900410102, key832 |-> 966434576, key854 |-> 943590436, key873 |->
      947375387, key886 |-> 972064584, key887 |-> 1064956199, key895 |-> 1069188101, key913 |->
      941531599, key922 |-> 969833393, key929 |-> 832108311, key946 |-> 832186625, key958 |->
      996730005, key977 |-> 962800470, key990 |-> 916782539, key996 |-> 830082201, key1068 |->
      807496596, key1086 |-> 812710184, key1109 |-> 1019569403, key1129 |-> 820721069, key1130
      |-> 1025940344, key1139 |-> 847057088, key1143 |-> 1014322015, key1144 |-> 865775104,
      key1172 |-> 938574783, key1192 |-> 962270015, key1196 |-> 942387962, key1210 |->
      986821484, key1217 |-> 987588336, key1218 |-> 961792220, key1219 |-> 996795737, key1230
      |-> 1070582177, key1247 |-> 859943394, key1256 |-> 1064326862, key1262 |-> 891333735,
      key1266 |-> 880117892, key1286 |-> 838127545, key1297 |-> 878159909, key1303 |->
      844959235, key1311 |-> 847519164, key1315 |-> 906817975, key1319 |-> 914021393, key1322
      |-> 810126867, key1325 |-> 878037463, key1344 |-> 955918077, key1354 |-> 846046047,
      key1358 |-> 1001611907, key1365 |-> 819874510, key1385 |-> 1067853532, key1428 |->
      814725436, key1448 |-> 978821332, key1456 |-> 1048288695, key1472 |-> 874584640, key1477
      |-> 834018478, key1492 |-> 806229729, key1511 |-> 897336881, key1519 |-> 1032484659,
      key1546 |-> 859070572, key1553 |-> 984138253, key1558 |-> 969683342, key1585 |->
      951071282, key1598 |-> 1051189852, key1602 |-> 1036218755, key1603 |-> 973716677, key1636
      |-> 1038914508, key1638 |-> 841528546, key1641 |-> 1026327277, key1659 |-> 806793200,
      key1673 |-> 977517334, key1686 |-> 964417396, key1695 |-> 1041976279, key1706 |->
      1046406116, key1710 |-> 1044561492, key1713 |-> 1029651480, key1717 |-> 978898014, key1718
      |-> 834424912, key1729 |-> 994782596, key1772 |-> 806113392, key1780 |-> 930658734,
      key1792 |-> 938311905, key1800 |-> 960794379, key1802 |-> 857226956, key1808 |->
      1042120423, key1814 |-> 902917697, key1833 |-> 951847724, key1841 |-> 845303796, key1844
      |-> 818174568, key1853 |-> 965006621, key1876 |-> 1024342768, key1879 |-> 876570954,
      key1918 |-> 828577701, key1926 |-> 945114076, key1933 |-> 829737174, key1939 |->
      856899739, key1946 |-> 1040067234, key1961 |-> 812183155, key1974 |-> 1051745185, key1997
      |-> 944742230, key2001 |-> 869920283, key2009 |-> 865580465, key2018 |-> 814794744,
      key2033 |-> 863023464, key2034 |-> 928444389, key2052 |-> 984901128, key2061 |->
      867986631, key2063 |-> 923212978, key2091 |-> 1053533454, key2133 |-> 977642656, key2137
      |-> 832288783, key2166 |-> 1018639852 ]

hashKey(key) == KeyHash[key]

AllKeys == DOMAIN KeyHash

----------------------------------------------------------------------------
(* Construction. *)

newNode(key) == [key |-> key, seqNumber |-> 0, ptr |-> NilPtr]

newTablePartition ==
    [ resizeInProgress |-> FALSE,
      nextResizeIndex  |-> -1,
      buckets          |-> << [i \in 1..initialBucketSize |-> <<>>], <<>> >>,
      nElements        |-> 0,
      nNodes           |-> 0 ]

newMemTable == [p \in 0..(numPartitions - 1) |-> newTablePartition]

----------------------------------------------------------------------------
(* Lookup. *)

\* p := hash >> 28
partitionOf(hash) == hash \div (2 ^ 28)

\* hash % uint32(len(buckets)), as an index of the sequence
bucketOf(hash, buckets) == (hash % Len(buckets)) + 1

\* The position of the first node of the chain whose key equals key, 0 if none.
chainPos(chain, key) ==
    IF \E j \in 1..Len(chain) : chain[j].key = key
    THEN CHOOSE j \in 1..Len(chain) :
            /\ chain[j].key = key
            /\ \A m \in 1..(j - 1) : chain[m].key # key
    ELSE 0

\* The inner loop of findNode on t.buckets[i]; 0 when the array is nil.
findIn(t, i, key, hash) ==
    IF Len(t.buckets[i + 1]) = 0
    THEN 0
    ELSE chainPos(t.buckets[i + 1][bucketOf(hash, t.buckets[i + 1])], key)

\* findNode as it would be if it looked in t.buckets[0] alone.
findNodeActiveOnly(t, key, hash) ==
    IF findIn(t, 0, key, hash) > 0
    THEN [bucketIndex |-> 0, pos |-> findIn(t, 0, key, hash)]
    ELSE [bucketIndex |-> -1, pos |-> 0]

\* (i, prevNode, node): pos is the node's position in its chain, so that
\* prevNode = nil iff pos <= 1 and node = nil iff pos = 0.
findNode(t, key, hash) ==
    IF findIn(t, 0, key, hash) > 0
    THEN [bucketIndex |-> 0, pos |-> findIn(t, 0, key, hash)]
    ELSE IF findIn(t, 1, key, hash) > 0
         THEN [bucketIndex |-> 1, pos |-> findIn(t, 1, key, hash)]
         ELSE [bucketIndex |-> -1, pos |-> 0]

\* The node a successful findNode points at.
nodeAt(t, f, hash) ==
    t.buckets[f.bucketIndex + 1][bucketOf(hash, t.buckets[f.bucketIndex + 1])][f.pos]

\* get as it would be if it reported sequence number 0 for a cleared node.
getZeroSeq(t, key, hash) ==
    LET f == findNode(t, key, hash)
    IN  IF f.pos > 0 /\ nodeAt(t, f, hash).ptr # NilPtr
        THEN <<nodeAt(t, f, hash).ptr, nodeAt(t, f, hash).seqNumber>>
        ELSE <<NilPtr, 0>>

get(t, key, hash) ==
    LET f == findNode(t, key, hash)
    IN  IF f.pos > 0
        THEN <<nodeAt(t, f, hash).ptr, nodeAt(t, f, hash).seqNumber>>
        ELSE <<NilPtr, 0>>

containsKey(t, key, hash) == get(t, key, hash)[1] # NilPtr

----------------------------------------------------------------------------
(* Incremental resize. *)

\* completeResize as it would be without line 138.
completeResizeKeepIndex(t) ==
    [t EXCEPT !.buckets = <<t.buckets[2], <<>>>>,
              !.resizeInProgress = FALSE]

completeResize(t) ==
    [t EXCEPT !.buckets = <<t.buckets[2], <<>>>>,
              !.resizeInProgress = FALSE,
              !.nextResizeIndex = -1]

\* The loop of resizeStep as it would be if it re-hashed against the length of
\* the array a grow migrates from (half the length of incoming).
RECURSIVE moveChainOldLength(_, _)
moveChainOldLength(chain, incoming) ==
    IF chain = <<>>
    THEN incoming
    ELSE moveChainOldLength(Tail(chain),
            [incoming EXCEPT ![(hashKey(Head(chain).key) % (Len(incoming) \div 2)) + 1] =
                <<Head(chain)>> \o @])

\* The loop of resizeStep: each node of the chain, from its head, is pushed
\* on the front of the bucket of incoming that its key hashes to.
RECURSIVE moveChain(_, _)
moveChain(chain, incoming) ==
    IF chain = <<>>
    THEN incoming
    ELSE moveChain(Tail(chain),
                   [incoming EXCEPT ![bucketOf(hashKey(Head(chain).key), incoming)] =
                        <<Head(chain)>> \o @])

\* resizeStep as it would be without line 211: the migrated bucket of active
\* keeps pointing at its chain.
resizeStepKeepBucket(t) ==
    IF ~t.resizeInProgress
    THEN t
    ELSE LET idx == t.nextResizeIndex + 1
             t1  == [t EXCEPT !.nextResizeIndex = idx,
                              !.buckets = << t.buckets[1],
                                             moveChain(t.buckets[1][idx + 1], t.buckets[2]) >>]
         IN  IF idx = Len(t.buckets[1]) - 1 THEN completeResize(t1) ELSE t1

resizeStep(t) ==
    IF ~t.resizeInProgress
    THEN t
    ELSE LET idx == t.nextResizeIndex + 1
             t1  == [t EXCEPT !.nextResizeIndex = idx,
                              !.buckets = << [t.buckets[1] EXCEPT ![idx + 1] = <<>>],
                                             moveChain(t.buckets[1][idx + 1], t.buckets[2]) >>]
         IN  IF idx = Len(t.buckets[1]) - 1 THEN completeResize(t1) ELSE t1

\* resizeIfNeeded as it would be without its shrink branch.
resizeIfNeededGrowOnly(t) ==
    IF t.resizeInProgress
    THEN t
    ELSE IF t.nNodes > 5 * Len(t.buckets[1])
         THEN [t EXCEPT !.buckets[2] = [i \in 1..(2 * Len(t.buckets[1])) |-> <<>>],
                        !.resizeInProgress = TRUE]
         ELSE t

\* resizeIfNeeded as it would be without lines 221-223.
resizeIfNeededUnguarded(t) ==
    LET nNodes   == t.nNodes
        nBuckets == Len(t.buckets[1])
    IN  IF nNodes > 5 * nBuckets
        THEN [t EXCEPT !.buckets[2] = [i \in 1..(2 * nBuckets) |-> <<>>],
                       !.resizeInProgress = TRUE]
        ELSE IF nNodes < nBuckets \div 4 /\ nNodes > initialBucketSize
             THEN [t EXCEPT !.buckets[2] = [i \in 1..(nBuckets \div 2) |-> <<>>],
                            !.resizeInProgress = TRUE]
             ELSE t

resizeIfNeeded(t) ==
    IF t.resizeInProgress
    THEN t
    ELSE LET nNodes   == t.nNodes
             nBuckets == Len(t.buckets[1])
         IN  IF nNodes > 5 * nBuckets
             THEN [t EXCEPT !.buckets[2] = [i \in 1..(2 * nBuckets) |-> <<>>],
                            !.resizeInProgress = TRUE]
             ELSE IF nNodes < nBuckets \div 4 /\ nNodes > initialBucketSize
                  THEN [t EXCEPT !.buckets[2] = [i \in 1..(nBuckets \div 2) |-> <<>>],
                                 !.resizeInProgress = TRUE]
                  ELSE t

\* The trigger as put calls it; the reference table runs with it switched off.
trigger(resizing, t) == IF resizing THEN resizeIfNeeded(t) ELSE t

----------------------------------------------------------------------------
(* put and remove of a partition. *)

\* The comparison of line 172 as it would be with > for >=.
seqAcceptedStrict(seqNumber, stored) == seqNumber > stored

\* The comparison of line 172 as it would be if it were off by one.
seqAcceptedOffByOne(seqNumber, stored) == seqNumber + 1 >= stored

\* seqNumber >= currNode.seqNumber
seqAccepted(seqNumber, stored) == seqNumber >= stored

\* The comparison of line 250 as it would be with > for >=.
seqNumAcceptedStrict(seqNum, stored) == seqNum > stored

\* seqNum >= nd.seqNumber
seqNumAccepted(seqNum, stored) == seqNum >= stored

\* Lines 156-169: the new node becomes the head of its bucket, in incoming
\* while a resize is in progress and in active otherwise.
linkNew(t, nd, hash) ==
    LET i == IF t.resizeInProgress THEN 2 ELSE 1
        b == bucketOf(hash, t.buckets[i])
    IN  [t EXCEPT !.buckets[i][b] = <<nd>> \o @,
                  !.nElements = @ + 1,
                  !.nNodes = @ + 1]

\* Lines 176-182 as they would be if they ignored prevNode and always took the
\* head of the bucket out.
unlinkHead(t, f, hash) ==
    LET i == f.bucketIndex + 1
        b == bucketOf(hash, t.buckets[i])
    IN  [t EXCEPT !.buckets[i][b] = Tail(@), !.nNodes = @ - 1]

\* Lines 176-182 as they would be without line 182.
unlinkKeepCount(t, f, hash) ==
    LET i     == f.bucketIndex + 1
        b     == bucketOf(hash, t.buckets[i])
        chain == t.buckets[i][b]
    IN  [t EXCEPT !.buckets[i][b] =
                      IF f.pos > 1
                      THEN SubSeq(chain, 1, f.pos - 1) \o SubSeq(chain, f.pos + 1, Len(chain))
                      ELSE Tail(chain)]

\* Lines 176-182, for a node findNode found (f.bucketIndex >= 0).
unlink(t, f, hash) ==
    LET i     == f.bucketIndex + 1
        b     == bucketOf(hash, t.buckets[i])
        chain == t.buckets[i][b]
    IN  [t EXCEPT !.buckets[i][b] =
                      IF f.pos > 1
                      THEN SubSeq(chain, 1, f.pos - 1) \o SubSeq(chain, f.pos + 1, Len(chain))
                      ELSE Tail(chain),
                  !.nNodes = @ - 1]

\* Lines 184-185 and 253: an assignment to fields of the node at loc.
setNode(t, loc, hash, seqNumber, ptr) ==
    LET i == loc.bucketIndex + 1
        b == bucketOf(hash, t.buckets[i])
    IN  [t EXCEPT !.buckets[i][b][loc.pos] = [@ EXCEPT !.seqNumber = seqNumber, !.ptr = ptr]]

\* put with the resize trigger on (resizing) or off.  A put of a nil pointer
\* for a key findNode did not find reaches line 179 with prevNode = nil and
\* bucketIndex = -1: t.buckets[-1] panics, after the new node was linked and
\* counted.
putWith(resizing, t, key, seqNumber, ptr, hash) ==
    LET t1       == resizeStep(t)
        f        == findNode(t1, key, hash)
        isNew    == f.pos = 0
        t2       == IF isNew THEN linkNew(t1, newNode(key), hash) ELSE t1
        loc      == IF isNew
                    THEN [bucketIndex |-> IF t1.resizeInProgress THEN 1 ELSE 0, pos |-> 1]
                    ELSE f
        currNode == nodeAt(t2, loc, hash)
    IN  IF seqAccepted(seqNumber, currNode.seqNumber)
        THEN IF ptr = NilPtr
             THEN IF f.pos <= 1 /\ f.bucketIndex = -1
                  THEN [t |-> t2, prev |-> NilPtr, applied |-> FALSE, panic |-> TRUE]
                  ELSE [t |-> trigger(resizing, unlink(t2, f, hash)),
                        prev |-> currNode.ptr, applied |-> TRUE, panic |-> FALSE]
             ELSE [t |-> trigger(resizing, setNode(t2, loc, hash, seqNumber, ptr)),
                   prev |-> currNode.ptr, applied |-> TRUE, panic |-> FALSE]
        ELSE [t |-> trigger(resizing, t2), prev |-> ptr, applied |-> FALSE, panic |-> FALSE]

put(t, key, seqNumber, ptr, hash) == putWith(TRUE, t, key, seqNumber, ptr, hash)

remove(t, key, seqNum, hash) ==
    LET t1 == resizeStep(t)
        f  == findNode(t1, key, hash)
    IN  IF f.pos = 0
        THEN [t |-> t1, removePtr |-> NilPtr]
        ELSE LET nd == nodeAt(t1, f, hash)
             IN  IF seqNumAccepted(seqNum, nd.seqNumber)
                 THEN [t |-> [setNode(t1, f, hash, nd.seqNumber, NilPtr)
                                EXCEPT !.nElements = IF nd.ptr # NilPtr THEN @ - 1 ELSE @],
                       removePtr |-> nd.ptr]
                 ELSE [t |-> t1, removePtr |-> NilPtr]

\* memTable.Size
RECURSIVE sumElements(_, _)
sumElements(parts, i) ==
    IF i = numPartitions THEN 0 ELSE parts[i].nElements + sumElements(parts, i + 1)

Size(parts) == sumElements(parts, 0)

----------------------------------------------------------------------------
(* The public calls of memTable, each one atomic step. *)

NoCall ==
    [op |-> "none", key |-> "", seqNumber |-> 0, ptr |-> NilPtr,
     rptr |-> NilPtr, rseq |-> 0, rok |-> FALSE, rn |-> 0]

\* The record of writes to one key: n counts them (3 stands for "3 or more"),
\* hiSeq and hiPtr are the sequence number and the pointer (NilPtr for a
\* delete) of the write with the highest sequence number, tie says that two
\* of them carried the same sequence number.
NoWrites == [n |-> 0, hiSeq |-> 0, hiPtr |-> NilPtr, tie |-> FALSE]

ManyWrites == [n |-> 3, hiSeq |-> 0, hiPtr |-> NilPtr, tie |-> FALSE]

noteWrite(w, seqNumber, ptr) ==
    IF w.n = 0 THEN [n |-> 1, hiSeq |-> seqNumber, hiPtr |-> ptr, tie |-> FALSE]
    ELSE IF w.n >= 2 THEN ManyWrites
    ELSE IF seqNumber > w.hiSeq THEN [w EXCEPT !.n = 2, !.hiSeq = seqNumber, !.hiPtr = ptr]
    ELSE IF seqNumber = w.hiSeq THEN [w EXCEPT !.n = 2, !.tie = TRUE]
    ELSE [w EXCEPT !.n = 2]

noted(key, seqNumber, ptr) ==
    IF key \in DOMAIN writes
    THEN [writes EXCEPT ![key] = noteWrite(@, seqNumber, ptr)]
    ELSE writes

\* The scenario of spec section 8, on key "a" of an empty table.
Scenario ==
    << [op |-> "put",    key |-> "a", seqNumber |-> 1, ptr |-> "P1",
        rptr |-> NilPtr, rseq |-> 0, rok |-> TRUE,  rn |-> 0],
       [op |-> "put",    key |-> "a", seqNumber |-> 1, ptr |-> "P2",
        rptr |-> "P1",   rseq |-> 0, rok |-> TRUE,  rn |-> 0],
       [op |-> "get",    key |-> "a", seqNumber |-> 0, ptr |-> NilPtr,
        rptr |-> "P2",   rseq |-> 1, rok |-> FALSE, rn |-> 0],
       [op |-> "remove", key |-> "a", seqNumber |-> 2, ptr |-> NilPtr,
        rptr |-> "P2",   rseq |-> 0, rok |-> FALSE, rn |-> 0],
       [op |-> "get",    key |-> "a", seqNumber |-> 0, ptr |-> NilPtr,
        rptr |-> NilPtr, rseq |-> 1, rok |-> FALSE, rn |-> 0],
       [op |-> "put",    key |-> "a", seqNumber |-> 3, ptr |-> "P3",
        rptr |-> NilPtr, rseq |-> 0, rok |-> TRUE,  rn |-> 0],
       [op |-> "get",    key |-> "a", seqNumber |-> 0, ptr |-> NilPtr,
        rptr |-> "P3",   rseq |-> 3, rok |-> FALSE, rn |-> 0] >>

sameCall(c, d) ==
    c.op = d.op /\ c.key = d.key /\ c.seqNumber = d.seqNumber /\ c.ptr = d.ptr

follow(call) ==
    IF scn >= 0 /\ scn < Len(Scenario) /\ sameCall(call, Scenario[scn + 1])
    THEN scn + 1
    ELSE -1

\* All nodes linked in the chains of a bucket array, bucket by bucket.
RECURSIVE chainsOf(_, _)
chainsOf(buckets, i) ==
    IF i > Len(buckets) THEN <<>> ELSE buckets[i] \o chainsOf(buckets, i + 1)

\* All nodes linked in a partition: those of active, then those of incoming.
linked(t) == chainsOf(t.buckets[1], 1) \o chainsOf(t.buckets[2], 1)

liveNodes(t) ==
    LET nodes == linked(t)
    IN  Cardinality({j \in 1..Len(nodes) : nodes[j].ptr # NilPtr})

\* nElements is not bounded by the number of keys (it can run away from the
\* number of live nodes in both directions); the workload of Spec stops short
\* of a call that would take it more than MaxDrift away.
withinDrift(t) ==
    LET live == liveNodes(t)
    IN  t.nElements - live <= MaxDrift /\ live - t.nElements <= MaxDrift

\* The goroutines that call into the table, and no goroutine.
Goroutines == {1, 2, 3}

NoGoroutine == 0

\* A sync.RWMutex: the goroutine that called Lock (writer) and whether its Lock
\* has returned (held), and the goroutines whose RLock has returned (readers).
\* The zero value is unlocked.
newLock == [writer |-> NoGoroutine, held |-> FALSE, readers |-> {}]

\* locks: make([]sync.RWMutex, numPartitions)
newLocks == [p \in 0..(numPartitions - 1) |-> newLock]

NoFind == [bucketIndex |-> -1, pos |-> 0]

\* A goroutine outside every call.  In a call: pc is the statement it is about
\* to run, call its arguments and (once computed) results, f and loc the
\* locals bucketIndex/prevNode/currNode of put, t0 the partition as it was when
\* the lock was acquired; made says that it has made its call of the
\* concurrent phase.
NotCalling ==
    [pc |-> "idle", call |-> NoCall, f |-> NoFind, loc |-> NoFind,
     t0 |-> newTablePartition, made |-> FALSE]

Init ==
    /\ partitions = newMemTable
    /\ panicked = FALSE
    /\ ret = NoCall
    /\ ref = newMemTable
    /\ writes = [k \in HotKeys |-> NoWrites]
    /\ scn = 0
    /\ loaded = 0
    /\ dropped = 0
    /\ locks = newLocks
    /\ th = [g \in Goroutines |-> NotCalling]

PutCall(key, seqNumber, ptr) ==
    LET hash == hashKey(key)
        p    == partitionOf(hash)
        r    == put(partitions[p], key, seqNumber, ptr, hash)
        call == [NoCall EXCEPT !.op = "put", !.key = key, !.seqNumber = seqNumber,
                               !.ptr = ptr, !.rptr = r.prev, !.rok = r.applied]
    IN  /\ ~panicked
        /\ partitions' = [partitions EXCEPT ![p] = r.t]
        /\ panicked' = r.panic
        /\ ret' = call
        /\ ref' = [ref EXCEPT ![p] = putWith(FALSE, @, key, seqNumber, ptr, hash).t]
        /\ writes' = noted(key, seqNumber, ptr)
        /\ scn' = follow(call)
        /\ UNCHANGED <<locks, th>>

RemoveCall(key, seqNumber) ==
    LET hash == hashKey(key)
        p    == partitionOf(hash)
        r    == remove(partitions[p], key, seqNumber, hash)
        call == [NoCall EXCEPT !.op = "remove", !.key = key, !.seqNumber = seqNumber,
                               !.rptr = r.removePtr]
    IN  /\ ~panicked
        /\ partitions' = [partitions EXCEPT ![p] = r.t]
        /\ ret' = call
        /\ ref' = [ref EXCEPT ![p] = remove(@, key, seqNumber, hash).t]
        /\ writes' = noted(key, seqNumber, NilPtr)
        /\ scn' = follow(call)
        /\ UNCHANGED <<panicked, locks, th>>

Put(key, seqNumber, ptr) ==
    /\ PutCall(key, seqNumber, ptr)
    /\ withinDrift(partitions'[partitionOf(hashKey(key))])
    /\ UNCHANGED <<loaded, dropped>>

Remove(key, seqNumber) ==
    /\ RemoveCall(key, seqNumber)
    /\ withinDrift(partitions'[partitionOf(hashKey(key))])
    /\ UNCHANGED <<loaded, dropped>>

Get(key) ==
    LET hash == hashKey(key)
        p    == partitionOf(hash)
        r    == get(partitions[p], key, hash)
        call == [NoCall EXCEPT !.op = "get", !.key = key, !.rptr = r[1], !.rseq = r[2]]
    IN  /\ ~panicked
        /\ ret' = call
        /\ scn' = follow(call)
        /\ UNCHANGED <<partitions, panicked, ref, writes, loaded, dropped, locks, th>>

ContainsKey(key) ==
    LET hash == hashKey(key)
        p    == partitionOf(hash)
        call == [NoCall EXCEPT !.op = "containsKey", !.key = key,
                               !.rok = containsKey(partitions[p], key, hash)]
    IN  /\ ~panicked
        /\ ret' = call
        /\ scn' = follow(call)
        /\ UNCHANGED <<partitions, panicked, ref, writes, loaded, dropped, locks, th>>

SizeCall ==
    LET call == [NoCall EXCEPT !.op = "size", !.rn = Size(partitions)]
    IN  /\ ~panicked
        /\ ret' = call
        /\ scn' = follow(call)
        /\ UNCHANGED <<partitions, panicked, ref, writes, loaded, dropped, locks, th>>

\* The workload.  A bulk load of the first Warm filler keys, if there is one,
\* runs first and uninterrupted on the fresh table; from then on the calls on
\* the hot keys and the loads of the remaining filler keys interleave freely.
InBulk == loaded > 0 /\ loaded < Warm

Fresh == ret = NoCall

Free == ~InBulk

\* The next filler key is inserted with sequence number 1.
loadNext(limit) ==
    /\ loaded < limit
    /\ PutCall(Fillers[loaded + 1], 1, "P1")
    /\ loaded' = loaded + 1
    /\ UNCHANGED dropped

Load ==
    /\ InBulk \/ Fresh \/ loaded >= Warm
    /\ loadNext(NFill)

\* The next call of the scenario, while the calls so far are its prefix.
Scripted ==
    /\ scn >= 0 /\ scn < Len(Scenario)
    /\ LET c == Scenario[scn + 1]
       IN  \/ c.op = "put" /\ Put(c.key, c.seqNumber, c.ptr)
           \/ c.op = "remove" /\ Remove(c.key, c.seqNumber)
           \/ c.op = "get" /\ Get(c.key)

Next ==
    \/ /\ Free
       /\ \E key \in HotKeys, seqNumber \in Seqs, ptr \in HotPointers \cup {NilPtr} :
            Put(key, seqNumber, ptr)
    \/ /\ Free
       /\ \E key \in HotKeys, seqNumber \in Seqs : Remove(key, seqNumber)
    \/ /\ Free
       /\ \E key \in ReadKeys : Get(key)
    \/ /\ Free
       /\ \E key \in HotKeys : ContainsKey(key)
    \/ Free /\ SizeCall
    \/ Load
    \/ Scripted

Spec == Init /\ [][Next]_vars

----------------------------------------------------------------------------
(* The workload that takes the partition of "a" to 32 buckets and back: NLoadS
   filler keys are inserted (the 21st, 41st and 81st key of the partition start
   the grow to 8, 16 and 32 buckets), then the first NDropS of the partition's
   keys are deleted again by a put of no value.  When all but Margin of them are
   deleted, remove and get calls on the keys inserted last interleave with the
   rest. *)

KeptKeys == {Fillers[NLoadS - j] : j \in 0..2}

Thinned == loaded = NLoadS /\ dropped >= NDropS - Margin

LoadS == loadNext(NLoadS)

DropS ==
    /\ loaded = NLoadS
    /\ dropped < NDropS
    /\ PutCall(Fillers[dropped + 2], 1, NilPtr)
    /\ dropped' = dropped + 1
    /\ UNCHANGED loaded

RemoveS ==
    /\ Thinned
    /\ \E key \in KeptKeys :
            RemoveCall(key, 1) /\ UNCHANGED <<loaded, dropped>>

GetS ==
    /\ Thinned
    /\ \E key \in KeptKeys : Get(key)

NextShrink == LoadS \/ DropS \/ RemoveS \/ GetS

SpecShrink == Init /\ [][NextShrink]_vars

----------------------------------------------------------------------------
(* The workload that takes the partition of "a" to 64 buckets and back to 32:
   NLoadD filler keys are inserted (the 161st key of the partition starts the
   grow to 64 buckets), then the first NDropD of the partition's keys are
   deleted by a put of no value (the 146th deletion leaves 15 nodes and starts
   the shrink to 32 buckets).  From then on remove, stale put, get and
   containsKey calls on the keys inserted last carry the migration on. *)

NLoadD == 162

NDropD == 154

KeptKeysD == {Fillers[NLoadD], Fillers[NLoadD - 1]}

ThinnedD == loaded = NLoadD /\ dropped = NDropD

LoadD == loadNext(NLoadD)

DropD ==
    /\ loaded = NLoadD
    /\ dropped < NDropD
    /\ PutCall(Fillers[dropped + 2], 1, NilPtr)
    /\ dropped' = dropped + 1
    /\ UNCHANGED loaded

RemoveD ==
    /\ ThinnedD
    /\ \E key \in KeptKeysD :
            RemoveCall(key, 1) /\ UNCHANGED <<loaded, dropped>>

\* A put with sequence number 0 on a key stored with sequence number 1.
StalePutD ==
    /\ ThinnedD
    /\ \E key \in KeptKeysD :
            PutCall(key, 0, "P2") /\ UNCHANGED <<loaded, dropped>>

GetD ==
    /\ ThinnedD
    /\ \E key \in KeptKeysD : Get(key)

ContainsKeyD ==
    /\ ThinnedD
    /\ \E key \in KeptKeysD : ContainsKey(key)

NextDeep == LoadD \/ DropD \/ RemoveD \/ StalePutD \/ GetD \/ ContainsKeyD

SpecDeep == Init /\ [][NextDeep]_vars

----------------------------------------------------------------------------
(* The calls of concurrent goroutines, taken apart: the lock operation, the
   statements of the delegated partition method, the deferred unlock.  Between
   two steps of one goroutine any other goroutine may run. *)

\* The locking of the public methods as it would be if Put and Remove took
\* RLock like Get and ContainsKey.
lockModeAllShared(op) == "shared"

\* Put and Remove call Lock, Get and ContainsKey call RLock.
lockMode(op) == IF op \in {"put", "remove"} THEN "exclusive" ELSE "shared"

partitionOfCall(g) == partitionOf(hashKey(th[g].call.key))

\* The delegated method's first statement.
firstStatement(op) == IF op \in {"put", "remove"} THEN "resizeStep" ELSE "read"

\* The statements of a call that run with the partition lock acquired.
InsidePcs ==
    {"resizeStep", "findNode", "compare", "assignPtr", "resizeIfNeeded", "remove",
     "read", "return", "panic"}

inside(g) == th[g].pc \in InsidePcs

\* hash := hashKey(key); p := hash >> 28, and the call of the lock method.
Begin(g, op, key, seqNumber, ptr, made) ==
    /\ ~panicked
    /\ th[g].pc = "idle"
    /\ th' = [th EXCEPT ![g] =
                [@ EXCEPT !.pc = IF lockMode(op) = "exclusive" THEN "Lock" ELSE "RLock",
                          !.call = [NoCall EXCEPT !.op = op, !.key = key,
                                                  !.seqNumber = seqNumber, !.ptr = ptr],
                          !.made = made]]
    /\ UNCHANGED <<partitions, panicked, ret, ref, writes, scn, dropped, locks>>

\* Lock, first half: the caller becomes the one pending writer; from now on
\* RLock calls of other goroutines block.
LockBegin(g) ==
    LET p == partitionOfCall(g)
    IN  /\ ~panicked
        /\ th[g].pc = "Lock"
        /\ locks[p].writer = NoGoroutine
        /\ locks' = [locks EXCEPT ![p].writer = g]
        /\ th' = [th EXCEPT ![g].pc = "LockWait"]
        /\ UNCHANGED <<partitions, panicked, ret, ref, writes, scn, loaded, dropped>>

\* Lock, second half: it returns when the last reader has left.
LockAcquire(g) ==
    LET p == partitionOfCall(g)
    IN  /\ ~panicked
        /\ th[g].pc = "LockWait"
        /\ locks[p].readers = {}
        /\ locks' = [locks EXCEPT ![p].held = TRUE]
        /\ th' = [th EXCEPT ![g].pc = firstStatement(th[g].call.op),
                            ![g].t0 = partitions[p]]
        /\ UNCHANGED <<partitions, panicked, ret, ref, writes, scn, loaded, dropped>>

\* RLock returns when no writer holds the lock or waits for it.
RLockAcquire(g) ==
    LET p == partitionOfCall(g)
    IN  /\ ~panicked
        /\ th[g].pc = "RLock"
        /\ locks[p].writer = NoGoroutine
        /\ locks' = [locks EXCEPT ![p].readers = @ \cup {g}]
        /\ th' = [th EXCEPT ![g].pc = firstStatement(th[g].call.op),
                            ![g].t0 = partitions[p]]
        /\ UNCHANGED <<partitions, panicked, ret, ref, writes, scn, loaded, dropped>>

\* Unlock or RUnlock, whichever matches the lock method the call used.
released(g) ==
    LET p == partitionOfCall(g)
    IN  IF lockMode(th[g].call.op) = "exclusive"
        THEN [locks EXCEPT ![p].writer = NoGoroutine, ![p].held = FALSE]
        ELSE [locks EXCEPT ![p].readers = @ \ {g}]

\* Lines 151 and 243: t.resizeStep()
StepResize(g) ==
    LET p == partitionOfCall(g)
    IN  /\ ~panicked
        /\ th[g].pc = "resizeStep"
        /\ partitions' = [partitions EXCEPT ![p] = resizeStep(@)]
        /\ th' = [th EXCEPT ![g].pc = IF th[g].call.op = "put" THEN "findNode" ELSE "remove"]
        /\ UNCHANGED <<panicked, ret, ref, writes, scn, loaded, dropped, locks>>

\* Lines 153-170: findNode, and the new node when there is none.
PutFind(g) ==
    LET p     == partitionOfCall(g)
        c     == th[g].call
        hash  == hashKey(c.key)
        t     == partitions[p]
        f     == findNode(t, c.key, hash)
        isNew == f.pos = 0
    IN  /\ ~panicked
        /\ th[g].pc = "findNode"
        /\ partitions' = [partitions EXCEPT ![p] =
                            IF isNew THEN linkNew(t, newNode(c.key), hash) ELSE t]
        /\ th' = [th EXCEPT ![g].pc = "compare",
                            ![g].f = f,
                            ![g].loc = IF isNew
                                       THEN [bucketIndex |-> IF t.resizeInProgress THEN 1 ELSE 0,
                                             pos |-> 1]
                                       ELSE f]
        /\ UNCHANGED <<panicked, ret, ref, writes, scn, loaded, dropped, locks>>

\* Lines 172-184 and 194: the comparison; prev; the unlink of a put of nil (or
\* its panic at line 179); the assignment of the sequence number.
PutCompare(g) ==
    LET p        == partitionOfCall(g)
        c        == th[g].call
        hash     == hashKey(c.key)
        t        == partitions[p]
        f        == th[g].f
        loc      == th[g].loc
        currNode == nodeAt(t, loc, hash)
        accepted == seqAccepted(c.seqNumber, currNode.seqNumber)
        panics   == accepted /\ c.ptr = NilPtr /\ f.pos <= 1 /\ f.bucketIndex = -1
    IN  /\ ~panicked
        /\ th[g].pc = "compare"
        /\ partitions' = [partitions EXCEPT ![p] =
                            IF ~accepted \/ panics THEN t
                            ELSE IF c.ptr = NilPtr THEN unlink(t, f, hash)
                            ELSE setNode(t, loc, hash, c.seqNumber, currNode.ptr)]
        /\ th' = [th EXCEPT ![g].pc = IF panics THEN "panic"
                                      ELSE IF accepted /\ c.ptr # NilPtr THEN "assignPtr"
                                      ELSE "resizeIfNeeded",
                            ![g].call.rptr = IF panics THEN NilPtr
                                             ELSE IF accepted THEN currNode.ptr ELSE c.ptr,
                            ![g].call.rok = accepted /\ ~panics]
        /\ UNCHANGED <<panicked, ret, ref, writes, scn, loaded, dropped, locks>>

\* Line 185: currNode.ptr = ptr
PutAssignPtr(g) ==
    LET p    == partitionOfCall(g)
        c    == th[g].call
    IN  /\ ~panicked
        /\ th[g].pc = "assignPtr"
        /\ partitions' = [partitions EXCEPT ![p] =
                            setNode(@, th[g].loc, hashKey(c.key), c.seqNumber, c.ptr)]
        /\ th' = [th EXCEPT ![g].pc = "resizeIfNeeded"]
        /\ UNCHANGED <<panicked, ret, ref, writes, scn, loaded, dropped, locks>>

\* Lines 188 and 193: t.resizeIfNeeded()
PutTrigger(g) ==
    LET p == partitionOfCall(g)
    IN  /\ ~panicked
        /\ th[g].pc = "resizeIfNeeded"
        /\ partitions' = [partitions EXCEPT ![p] = resizeIfNeeded(@)]
        /\ th' = [th EXCEPT ![g].pc = "return"]
        /\ UNCHANGED <<panicked, ret, ref, writes, scn, loaded, dropped, locks>>

\* Lines 245-261 of remove.
RemoveApply(g) ==
    LET p     == partitionOfCall(g)
        c     == th[g].call
        hash  == hashKey(c.key)
        t     == partitions[p]
        f     == findNode(t, c.key, hash)
        clear == f.pos > 0 /\ seqNumAccepted(c.seqNumber, nodeAt(t, f, hash).seqNumber)
        prev  == IF clear THEN nodeAt(t, f, hash).ptr ELSE NilPtr
    IN  /\ ~panicked
        /\ th[g].pc = "remove"
        /\ partitions' = [partitions EXCEPT ![p] =
                            IF clear
                            THEN [setNode(t, f, hash, nodeAt(t, f, hash).seqNumber, NilPtr)
                                    EXCEPT !.nElements = IF prev # NilPtr THEN @ - 1 ELSE @]
                            ELSE t]
        /\ th' = [th EXCEPT ![g].pc = "return", ![g].call.rptr = prev]
        /\ UNCHANGED <<panicked, ret, ref, writes, scn, loaded, dropped, locks>>

\* Lines 56 and 89: the partition's get or containsKey.
Read(g) ==
    LET p    == partitionOfCall(g)
        c    == th[g].call
        hash == hashKey(c.key)
        r    == get(partitions[p], c.key, hash)
    IN  /\ ~panicked
        /\ th[g].pc = "read"
        /\ th' = [th EXCEPT ![g].pc = "return",
                            ![g].call.rptr = IF c.op = "get" THEN r[1] ELSE NilPtr,
                            ![g].call.rseq = IF c.op = "get" THEN r[2] ELSE 0,
                            ![g].call.rok = c.op = "containsKey"
                                                /\ containsKey(partitions[p], c.key, hash)]
        /\ UNCHANGED <<partitions, panicked, ret, ref, writes, scn, loaded, dropped, locks>>

\* The deferred Unlock or RUnlock runs and the call returns.
Return(g) ==
    /\ ~panicked
    /\ th[g].pc = "return"
    /\ locks' = released(g)
    /\ ret' = th[g].call
    /\ th' = [th EXCEPT ![g] = [NotCalling EXCEPT !.made = th[g].made]]
    /\ UNCHANGED <<partitions, panicked, ref, writes, scn, loaded, dropped>>

\* Line 179 panics: the deferred Unlock runs, the panic leaves Put and, since
\* nothing recovers it, ends the process.
Panic(g) ==
    /\ ~panicked
    /\ th[g].pc = "panic"
    /\ locks' = released(g)
    /\ panicked' = TRUE
    /\ th' = [th EXCEPT ![g].pc = "panicked"]
    /\ UNCHANGED <<partitions, ret, ref, writes, scn, loaded, dropped>>

(* The workload of SpecLocks.  Goroutine 1 may first insert NLoadL filler keys,
   call after call, which leaves the partition of "a" with a grow in flight;
   then each goroutine makes one call, all three concurrently. *)

\* "d" and 21 keys of the partition of "a": the last of them begins the grow.
NLoadL == 22

Quiet == \A g \in Goroutines : th[g].pc = "idle" /\ ~th[g].made

aCall(op, key, seqNumber, ptr) ==
    [op |-> op, key |-> key, seqNumber |-> seqNumber, ptr |-> ptr]

CallsOf(g) ==
    IF g = 1
    THEN {aCall("put", "a", 1, "P1"), aCall("put", "a", 1, NilPtr),
          aCall("remove", "a", 1, NilPtr), aCall("put", "key6", 2, "P2")}
    ELSE IF g = 2
    THEN {aCall("put", "a", 2, "P2"), aCall("put", "d", 1, "P1"), aCall("get", "a", 0, NilPtr)}
    ELSE {aCall("get", "a", 0, NilPtr), aCall("containsKey", "a", 0, NilPtr),
          aCall("get", "d", 0, NilPtr)}

LoadL ==
    /\ Quiet
    /\ loaded < NLoadL
    /\ Begin(1, "put", Fillers[loaded + 1], 1, "P1", FALSE)
    /\ loaded' = loaded + 1

Call(g) ==
    /\ loaded \in {0, NLoadL}
    /\ ~th[g].made
    /\ \E c \in CallsOf(g) : Begin(g, c.op, c.key, c.seqNumber, c.ptr, TRUE)
    /\ UNCHANGED loaded

NextLocks ==
    \/ LoadL
    \/ \E g \in Goroutines : Call(g)
    \/ \E g \in Goroutines : LockBegin(g)
    \/ \E g \in Goroutines : LockAcquire(g)
    \/ \E g \in Goroutines : RLockAcquire(g)
    \/ \E g \in Goroutines : StepResize(g)
    \/ \E g \in Goroutines : PutFind(g)
    \/ \E g \in Goroutines : PutCompare(g)
    \/ \E g \in Goroutines : PutAssignPtr(g)
    \/ \E g \in Goroutines : PutTrigger(g)
    \/ \E g \in Goroutines : RemoveApply(g)
    \/ \E g \in Goroutines : Read(g)
    \/ \E g \in Goroutines : Return(g)
    \/ \E g \in Goroutines : Panic(g)

SpecLocks == Init /\ [][NextLocks]_vars

----------------------------------------------------------------------------
(* What the claims speak about. *)

partitionOfKey(key) == partitionOf(hashKey(key))

\* The nodes linked for key in its partition, found by walking every chain of
\* both bucket arrays (not by hashing).
nodesOf(parts, key) ==
    LET nodes == linked(parts[partitionOfKey(key)])
    IN  {j \in 1..Len(nodes) : nodes[j].key = key}

hasEntry(parts, key) == nodesOf(parts, key) # {}

entryOf(parts, key) ==
    LET nodes == linked(parts[partitionOfKey(key)])
    IN  nodes[CHOOSE j \in 1..Len(nodes) : nodes[j].key = key]

\* The set of nodes linked in a partition.
nodeSet(t) == {linked(t)[j] : j \in 1..Len(linked(t))}

\* get, as a caller of memTable.Get sees it.
tableGet(parts, key) == get(parts[partitionOfKey(key)], key, hashKey(key))

\* C1: no call panics, whatever its input and whatever the state of the table.
C1_NoPanic == ~panicked

\* C2: every key has at most one node linked in its partition, the chains of
\* the active and of the incoming bucket array counted together.
C2_KeyUniqueness ==
    \A p \in DOMAIN partitions :
        LET nodes == linked(partitions[p])
        IN  \A i, j \in 1..Len(nodes) : nodes[i].key = nodes[j].key => i = j

\* A put on "a" has just run while a migration is under way, and "a" is linked.
C2_Witness ==
    /\ partitions[3].resizeInProgress
    /\ partitions[3].nextResizeIndex >= 1
    /\ ret.op = "put" /\ ret.key = "a" /\ ret.rok
    /\ hasEntry(partitions, "a")

\* C3: once two writes with different sequence numbers have been applied to a
\* key, in either order, get returns the pointer of the write with the higher
\* sequence number (absent when that write is a remove or a put of no value).
C3_HigherSequenceWins ==
    \A key \in HotKeys :
        (writes[key].n = 2 /\ ~writes[key].tie /\ ~panicked)
            => tableGet(partitions, key)[1] = writes[key].hiPtr

\* C4: a put that directly follows an applied put(k, s1, v1) on the same key
\* with a lower sequence number returns applied = false, and get(k) is still
\* (v1, s1).
C4_StalePutAfterPut ==
    [][ ( /\ ret.op = "put" /\ ret.rok
          /\ ret'.op = "put" /\ ret'.key = ret.key
          /\ ret'.seqNumber < ret.seqNumber
          /\ ~panicked' )
        => ( /\ ~ret'.rok
             /\ tableGet(partitions', ret.key) = <<ret.ptr, ret.seqNumber>> ) ]_vars

\* C5: between calls, nElements of every partition is the number of its linked
\* nodes whose pointer is present, so Size() is the number of such nodes of the
\* table and is not negative.
C5_LiveCount ==
    ~panicked =>
        /\ \A p \in DOMAIN partitions :
                partitions[p].nElements = liveNodes(partitions[p])
        /\ Size(partitions) >= 0

\* C6 as stated: get returns (absent, 0) for a key without a node and for a key
\* whose node has been cleared by remove.
C6_AbsentAndZero ==
    (ret.op = "get" /\ (~hasEntry(partitions, ret.key)
                          \/ entryOf(partitions, ret.key).ptr = NilPtr))
        => (ret.rptr = NilPtr /\ ret.rseq = 0)

\* C6 as amended: get returns (absent, 0) for a key without a node; for a key
\* whose node has been cleared it returns an absent pointer together with the
\* sequence number stored in the node.
C6_AbsentAndStoredSeq ==
    ret.op = "get" =>
        /\ ~hasEntry(partitions, ret.key) => (ret.rptr = NilPtr /\ ret.rseq = 0)
        /\ (hasEntry(partitions, ret.key) /\ entryOf(partitions, ret.key).ptr = NilPtr)
                => ( /\ ret.rptr = NilPtr
                     /\ ret.rseq = entryOf(partitions, ret.key).seqNumber )

\* A get has just returned for a key whose node is cleared and holds a sequence
\* number other than 0.
C6_Witness ==
    /\ ret.op = "get"
    /\ hasEntry(partitions, ret.key)
    /\ entryOf(partitions, ret.key).ptr = NilPtr
    /\ entryOf(partitions, ret.key).seqNumber > 0

\* C7: whatever calls have been made, and wherever a migration stands, get
\* returns for every key what it returns on the table that received the same
\* calls and never resizes; so does every Get call made.
C7_ResizeTransparent ==
    /\ \A key \in AllKeys : tableGet(partitions, key) = tableGet(ref, key)
    /\ ret.op = "get" => <<ret.rptr, ret.rseq>> = tableGet(ref, ret.key)

\* A Get has just returned the live pointer of a key whose node is linked in
\* incoming, half way through a migration.
C7_Witness ==
    /\ partitions[3].resizeInProgress
    /\ partitions[3].nextResizeIndex >= 1
    /\ ret.op = "get" /\ ret.rptr # NilPtr
    /\ findNode(partitions[3], ret.key, hashKey(ret.key)).bucketIndex = 1

\* Every linked node that holds a pointer is what get returns for its key.
liveRetrievable(parts) ==
    \A p \in DOMAIN parts :
        LET nodes == linked(parts[p])
        IN  \A j \in 1..Len(nodes) :
                nodes[j].ptr # NilPtr
                    => tableGet(parts, nodes[j].key) = <<nodes[j].ptr, nodes[j].seqNumber>>

\* C8 as stated: a remove that starts with no resize in flight and leaves fewer
\* than bucketCount/4, but more than 4, keys with a value begins a shrink to
\* bucketCount/2 buckets; the keys that keep a value stay retrievable.
C8_ShrinkOnRemove ==
    /\ [][ LET p == partitionOfKey(ret'.key)
               nBuckets == Len(partitions[p].buckets[1])
           IN  ( /\ ret'.op = "remove"
                 /\ ~partitions[p].resizeInProgress
                 /\ liveNodes(partitions[p]) >= nBuckets \div 4
                 /\ liveNodes(partitions'[p]) < nBuckets \div 4
                 /\ liveNodes(partitions'[p]) > initialBucketSize )
               => ( /\ partitions'[p].resizeInProgress
                    /\ Len(partitions'[p].buckets[2]) = nBuckets \div 2 ) ]_vars
    /\ []liveRetrievable(partitions)

\* The shrink the code does perform (it holds under SpecShrink; it is not C8 as
\* stated): a put of no value that starts with no resize in flight and
\* unlinks a node, leaving fewer than bucketCount/4 but more than 4 nodes,
\* begins a shrink to bucketCount/2 buckets; a remove never begins a resize;
\* the keys that keep a value stay retrievable during and after the shrink.
C8_ShrinkOnUnlink ==
    /\ [][ LET p == partitionOfKey(ret'.key)
               nBuckets == Len(partitions[p].buckets[1])
           IN  ( /\ ret'.op = "put" /\ ret'.ptr = NilPtr
                 /\ ~partitions[p].resizeInProgress
                 /\ partitions[p].nNodes >= nBuckets \div 4
                 /\ partitions'[p].nNodes < nBuckets \div 4
                 /\ partitions'[p].nNodes > initialBucketSize )
               => ( /\ partitions'[p].resizeInProgress
                    /\ Len(partitions'[p].buckets[1]) = nBuckets
                    /\ Len(partitions'[p].buckets[2]) = nBuckets \div 2 ) ]_vars
    /\ [][ LET p == partitionOfKey(ret'.key)
           IN  (ret'.op = "remove" /\ ~partitions[p].resizeInProgress)
                   => ~partitions'[p].resizeInProgress ]_vars
    /\ []liveRetrievable(partitions)

\* A get has just returned the pointer of a key, half way through the
\* migration from 32 to 16 buckets that a put of no value began.
C8_Witness ==
    /\ partitions[3].resizeInProgress
    /\ Len(partitions[3].buckets[1]) = 32 /\ Len(partitions[3].buckets[2]) = 16
    /\ partitions[3].nextResizeIndex >= 15
    /\ ret.op = "get" /\ ret.rptr # NilPtr

\* C9: a put with a sequence number below the one stored for its key returns
\* its own pointer argument and false, and leaves the key's node, the set of
\* linked nodes, nElements and nNodes of the partition as they were.
C9_StalePutRejected ==
    [][ ( /\ ret'.op = "put"
          /\ hasEntry(partitions, ret'.key)
          /\ ret'.seqNumber < entryOf(partitions, ret'.key).seqNumber )
        => LET p == partitionOfKey(ret'.key)
           IN  /\ ~panicked'
               /\ ret'.rptr = ret'.ptr /\ ~ret'.rok
               /\ hasEntry(partitions', ret'.key)
               /\ entryOf(partitions', ret'.key) = entryOf(partitions, ret'.key)
               /\ nodeSet(partitions'[p]) = nodeSet(partitions[p])
               /\ partitions'[p].nElements = partitions[p].nElements
               /\ partitions'[p].nNodes = partitions[p].nNodes ]_vars

\* A put has just been rejected by a partition that is half way through a
\* migration.
C9_Witness ==
    /\ ret.op = "put" /\ ~ret.rok /\ ~panicked
    /\ partitions[partitionOfKey(ret.key)].resizeInProgress
    /\ partitions[partitionOfKey(ret.key)].nextResizeIndex >= 0

\* C10: a put of a present pointer with the sequence number stored for its key
\* is applied: it returns the pointer stored before and true, and get then
\* returns the new pointer with that sequence number.  The calls of the
\* scenario of spec section 8, made on the empty table, return what the
\* scenario lists.
C10_TiesFavorIncoming ==
    /\ [][ ( /\ ret'.op = "put" /\ ret'.ptr # NilPtr
             /\ hasEntry(partitions, ret'.key)
             /\ ret'.seqNumber = entryOf(partitions, ret'.key).seqNumber )
           => ( /\ ret'.rok
                /\ ret'.rptr = entryOf(partitions, ret'.key).ptr
                /\ tableGet(partitions', ret'.key) = <<ret'.ptr, ret'.seqNumber>> ) ]_vars
    /\ [](scn >= 1 => ret = Scenario[scn])

\* The seven calls of the scenario have been made, the second of them a put
\* with the stored sequence number.
C10_Witness == scn = Len(Scenario)

\* C11: a put of no value on a key whose node holds a pointer, with a sequence
\* number at least the stored one, returns the pointer held before and true,
\* takes the key's node out of its chain (every other node stays) and lowers
\* nNodes by one; get then returns an absent pointer and containsKey false, and
\* so does a Get call that follows directly.
C11_DeleteThenRead ==
    /\ [][ ( /\ ret'.op = "put" /\ ret'.ptr = NilPtr
             /\ hasEntry(partitions, ret'.key)
             /\ entryOf(partitions, ret'.key).ptr # NilPtr
             /\ ret'.seqNumber >= entryOf(partitions, ret'.key).seqNumber )
           => LET p == partitionOfKey(ret'.key)
              IN  /\ ~panicked'
                  /\ ret'.rok
                  /\ ret'.rptr = entryOf(partitions, ret'.key).ptr
                  /\ ~hasEntry(partitions', ret'.key)
                  /\ nodeSet(partitions'[p])
                        = nodeSet(partitions[p]) \ {entryOf(partitions, ret'.key)}
                  /\ partitions'[p].nNodes = partitions[p].nNodes - 1
                  /\ tableGet(partitions', ret'.key)[1] = NilPtr
                  /\ ~containsKey(partitions'[p], ret'.key, hashKey(ret'.key)) ]_vars
    /\ [][ ( /\ ret.op = "put" /\ ret.ptr = NilPtr /\ ret.rok /\ ret.rptr # NilPtr
             /\ ret'.op = "get" /\ ret'.key = ret.key )
           => ret'.rptr = NilPtr ]_vars

\* A put of no value has just taken out the node of "a", which held a pointer,
\* in a partition of 20 or more nodes with a migration under way.
C11_Witness ==
    /\ ret.op = "put" /\ ret.ptr = NilPtr /\ ret.rok /\ ret.rptr # NilPtr
    /\ ret.key = "a" /\ ~hasEntry(partitions, "a")
    /\ partitions[3].resizeInProgress
    /\ partitions[3].nNodes >= 20

\* C12: a put of a present pointer on a key whose pointer a remove(k, s) has
\* cleared, with a sequence number s2 >= s, returns true and get then returns
\* (v2, s2).  Stated for the put that follows the remove directly, for a put
\* on a cleared node whatever calls lie between (the node keeps a sequence
\* number no higher than s until the next write to k), for the Get call that
\* follows the put, and for the put after the remove of the scenario of spec
\* section 8.
C12_PutAfterRemove ==
    /\ [][ ( /\ ret.op = "remove" /\ ret.rptr # NilPtr
             /\ ret'.op = "put" /\ ret'.key = ret.key /\ ret'.ptr # NilPtr
             /\ ret'.seqNumber >= ret.seqNumber )
           => ( /\ ~panicked'
                /\ ret'.rok
                /\ tableGet(partitions', ret'.key) = <<ret'.ptr, ret'.seqNumber>> ) ]_vars
    /\ [][ ( /\ ret.op = "remove" /\ ret.rptr # NilPtr )
           => ( /\ hasEntry(partitions, ret.key)
                /\ entryOf(partitions, ret.key).ptr = NilPtr
                /\ entryOf(partitions, ret.key).seqNumber <= ret.seqNumber ) ]_vars
    /\ [][ ( /\ ret'.op = "put" /\ ret'.ptr # NilPtr
             /\ hasEntry(partitions, ret'.key)
             /\ entryOf(partitions, ret'.key).ptr = NilPtr
             /\ ret'.seqNumber >= entryOf(partitions, ret'.key).seqNumber )
           => ( /\ ~panicked'
                /\ ret'.rok
                /\ tableGet(partitions', ret'.key) = <<ret'.ptr, ret'.seqNumber>> ) ]_vars
    /\ [][ ( /\ ret.op = "put" /\ ret.rok /\ ret.ptr # NilPtr
             /\ ret'.op = "get" /\ ret'.key = ret.key )
           => <<ret'.rptr, ret'.rseq>> = <<ret.ptr, ret.seqNumber>> ]_vars
    /\ [](scn = 6 => (ret.rok /\ tableGet(partitions, "a") = <<"P3", 3>>))

\* put("a", 3, P3) has just been applied to the node that remove("a", 2)
\* cleared of P2, with a Get between the two.
C12_Witness ==
    /\ scn = 6
    /\ ret.op = "put" /\ ret.key = "a" /\ ret.rok
    /\ ret.rptr = NilPtr /\ ret.ptr = "P3"
    /\ partitions[3].nNodes = 1 /\ partitions[3].nElements = 0

\* The partitions whose lock a goroutine holds or has claimed as pending writer.
locksOf(g) == {p \in DOMAIN locks : locks[p].writer = g \/ g \in locks[p].readers}

inCall(g) == th[g].pc \notin {"idle", "panicked"}

\* A goroutine whose lock call cannot return in this state.
blocked(g) ==
    /\ th[g].pc \in {"Lock", "LockWait", "RLock"}
    /\ LET l == locks[partitionOfCall(g)]
       IN  \/ th[g].pc = "Lock" /\ l.writer # NoGoroutine
           \/ th[g].pc = "LockWait" /\ l.readers # {}
           \/ th[g].pc = "RLock" /\ l.writer # NoGoroutine

\* Each call holds the lock of its key's partition, and no other, from the
\* return of its lock call on; outside a call a goroutine holds none.
oneLockPerCall ==
    \A g \in Goroutines :
        IF inCall(g)
        THEN /\ locksOf(g) \subseteq {partitionOfCall(g)}
             /\ inside(g) => locksOf(g) = {partitionOfCall(g)}
        ELSE locksOf(g) = {}

\* A blocked lock call waits for a goroutine that is in a call on a key of the
\* same partition.
blockedBySamePartitionOnly ==
    \A g \in Goroutines :
        blocked(g) =>
            \E u \in Goroutines \ {g} :
                /\ inCall(u)
                /\ partitionOfCall(u) = partitionOfCall(g)
                /\ partitionOfCall(g) \in locksOf(u)

\* C13: every call holds exactly one partition lock, that of its key, and has
\* released it when it has returned; a call waits only for a call on the same
\* partition; and every started call returns: as long as a call is under way,
\* some goroutine can take a step, up to the return of all of them.
C13_OneLockNoDeadlock ==
    /\ oneLockPerCall
    /\ blockedBySamePartitionOnly
    /\ (\A g \in Goroutines : th[g].pc = "idle") \/ ENABLED NextLocks

\* What holds of the locking with the panic of line 179 set aside: the lock
\* discipline, and progress as long as no call has panicked.
C13_LockDiscipline ==
    /\ oneLockPerCall
    /\ blockedBySamePartitionOnly
    /\ panicked \/ (\A g \in Goroutines : th[g].pc = "idle") \/ ENABLED NextLocks

\* A Put is inside the partition of "a" while a call on "d", in another
\* partition, is inside too and a third call waits for the lock of "a".
C13_Witness ==
    \E g, u, v \in Goroutines :
        /\ inside(g) /\ th[g].call.op = "put" /\ th[g].call.key = "a"
        /\ inside(u) /\ th[u].call.key = "d"
        /\ blocked(v) /\ th[v].call.key = "a"

writing(g) == inside(g) /\ th[g].call.op \in {"put", "remove"}

reading(g) == inside(g) /\ th[g].call.op \in {"get", "containsKey"}

\* What the call of g returns and leaves behind when it runs alone, in one
\* piece, on the partition as it was when g acquired the lock.
alone(g) ==
    LET c    == th[g].call
        hash == hashKey(c.key)
        t0   == th[g].t0
    IN  IF c.op = "put"
        THEN LET r == put(t0, c.key, c.seqNumber, c.ptr, hash)
             IN  [t |-> r.t, rptr |-> r.prev, rseq |-> 0, rok |-> r.applied, panic |-> r.panic]
        ELSE IF c.op = "remove"
        THEN LET r == remove(t0, c.key, c.seqNumber, hash)
             IN  [t |-> r.t, rptr |-> r.removePtr, rseq |-> 0, rok |-> FALSE, panic |-> FALSE]
        ELSE IF c.op = "get"
        THEN [t |-> t0, rptr |-> get(t0, c.key, hash)[1], rseq |-> get(t0, c.key, hash)[2],
              rok |-> FALSE, panic |-> FALSE]
        ELSE [t |-> t0, rptr |-> NilPtr, rseq |-> 0, rok |-> containsKey(t0, c.key, hash),
              panic |-> FALSE]

\* C20: a partition changes only in a step of a put or remove whose goroutine
\* holds the partition's lock as writer; while it holds it no other call is
\* inside the partition; a get or containsKey is inside under the shared lock,
\* changes nothing and sees the partition as it was when it acquired the lock,
\* with no write under way; and every call returns, and leaves behind, what it
\* would running alone on the partition it found.
C20_WritesUnderExclusiveLock ==
    /\ [][ \A p \in DOMAIN partitions :
                partitions'[p] # partitions[p]
                    => \E g \in Goroutines :
                            /\ writing(g) /\ partitionOfCall(g) = p
                            /\ th'[g] # th[g]
                            /\ locks[p].writer = g /\ locks[p].held
                            /\ locks[p].readers = {} ]_vars
    /\ [][ \A g \in Goroutines :
                (reading(g) /\ th'[g] # th[g]) => partitions' = partitions ]_vars
    /\ [] \A g \in Goroutines :
            writing(g) =>
                /\ locks[partitionOfCall(g)].writer = g
                /\ locks[partitionOfCall(g)].held
                /\ \A u \in Goroutines \ {g} :
                        inside(u) => partitionOfCall(u) # partitionOfCall(g)
    /\ [] \A g \in Goroutines :
            reading(g) =>
                /\ g \in locks[partitionOfCall(g)].readers
                /\ ~locks[partitionOfCall(g)].held
                /\ partitions[partitionOfCall(g)] = th[g].t0
                /\ \A u \in Goroutines : writing(u) => partitionOfCall(u) # partitionOfCall(g)
    /\ [] \A g \in Goroutines :
            /\ th[g].pc = "return" =>
                    /\ partitions[partitionOfCall(g)] = alone(g).t
                    /\ th[g].call.rptr = alone(g).rptr
                    /\ th[g].call.rseq = alone(g).rseq
                    /\ th[g].call.rok = alone(g).rok
                    /\ ~alone(g).panic
            /\ th[g].pc = "panic" =>
                    /\ partitions[partitionOfCall(g)] = alone(g).t
                    /\ alone(g).panic

\* A put on "a" has assigned the sequence number and not yet the pointer, in a
\* partition with a grow in flight, while another goroutine's RLock for "a"
\* waits and a third goroutine reads "d" in another partition.
C20_Witness ==
    \E g, u, v \in Goroutines :
        /\ th[g].pc = "assignPtr" /\ th[g].call.key = "a"
        /\ partitions[partitionOfCall(g)].resizeInProgress
        /\ th[u].pc = "RLock" /\ th[u].call.key = "a"
        /\ reading(v) /\ th[v].call.key = "d"

\* The resize cursor of the spec: the index of the next bucket of active to be
\* migrated.
cursor(t) == t.nextResizeIndex + 1

\* The keys linked in the chains of a bucket array.
keysIn(buckets) == {chainsOf(buckets, 1)[j].key : j \in 1..Len(chainsOf(buckets, 1))}

\* The index (from 0) of the bucket of active that a key hashes to.
activeIndex(t, key) == hashKey(key) % Len(t.buckets[1])

\* Buckets of active below the cursor are empty, and every linked entry whose
\* active index is below the cursor is in incoming.
migratedBelowCursor(t) ==
    /\ \A i \in 0..(cursor(t) - 1) : t.buckets[1][i + 1] = <<>>
    /\ \A key \in keysIn(t.buckets[1]) \cup keysIn(t.buckets[2]) :
            activeIndex(t, key) < cursor(t) => key \in keysIn(t.buckets[2])

\* C14 as stated: while a resize is in flight, the buckets of active below the
\* cursor are empty and their entries are in incoming, and every entry whose
\* active index is at or above the cursor is linked in active, not in incoming.
C14_CursorSplitsArrays ==
    \A p \in DOMAIN partitions :
        LET t == partitions[p]
        IN  t.resizeInProgress =>
                /\ migratedBelowCursor(t)
                /\ \A key \in keysIn(t.buckets[1]) \cup keysIn(t.buckets[2]) :
                        activeIndex(t, key) >= cursor(t)
                            => (key \in keysIn(t.buckets[1]) /\ key \notin keysIn(t.buckets[2]))

\* C14 as amended: while a resize is in flight, the buckets of active below the
\* cursor are empty and their entries are in incoming; every entry linked in
\* active sits in the bucket its hash selects, at or above the cursor, and is
\* not in incoming; incoming is empty when the resize begins, and an entry
\* whose active index is at or above the cursor is in incoming only if it was
\* inserted while the resize was in flight.
C14_MigrationFrontier ==
    /\ [] \A p \in DOMAIN partitions :
            LET t == partitions[p]
            IN  t.resizeInProgress =>
                    /\ migratedBelowCursor(t)
                    /\ \A i \in 1..Len(t.buckets[1]) : \A j \in 1..Len(t.buckets[1][i]) :
                            /\ bucketOf(hashKey(t.buckets[1][i][j].key), t.buckets[1]) = i
                            /\ i - 1 >= cursor(t)
                    /\ keysIn(t.buckets[1]) \cap keysIn(t.buckets[2]) = {}
    /\ [][ \A p \in DOMAIN partitions :
            LET t == partitions[p]
                u == partitions'[p]
            IN  /\ (~t.resizeInProgress /\ u.resizeInProgress)
                    => (keysIn(u.buckets[2]) = {} /\ cursor(u) = 0)
                /\ (t.resizeInProgress /\ u.resizeInProgress /\ cursor(u) >= cursor(t))
                    => \A key \in keysIn(u.buckets[2]) :
                            activeIndex(u, key) >= cursor(u)
                                => \/ key \in keysIn(t.buckets[2])
                                   \/ key \notin keysIn(t.buckets[1]) ]_vars

\* A grow is in flight; "a", inserted since it began, is linked in incoming
\* although its bucket of active has not been migrated yet, and that bucket
\* still holds entries.
C14_Witness ==
    LET t == partitions[3]
    IN  /\ t.resizeInProgress
        /\ "a" \in keysIn(t.buckets[2])
        /\ activeIndex(t, "a") >= cursor(t)
        /\ t.buckets[1][activeIndex(t, "a") + 1] # <<>>
        /\ cursor(t) >= 1

\* C15: whenever a put or a remove has returned and no resize is in flight on
\* the partition of its key, nNodes is at most 5 x the bucket count and is not
\* both above 4 and below a quarter of the bucket count.
C15_TriggerAfterEveryWrite ==
    (ret.op \in {"put", "remove"} /\ ~panicked) =>
        LET t        == partitions[partitionOfKey(ret.key)]
            nBuckets == Len(t.buckets[1])
        IN  ~t.resizeInProgress =>
                /\ t.nNodes <= 5 * nBuckets
                /\ ~(initialBucketSize < t.nNodes /\ t.nNodes < nBuckets \div 4)

\* What holds of the trigger: the same, for every put that has returned; and a
\* remove never begins a resize.
C15_TriggerAfterEveryPut ==
    /\ [] ( (ret.op = "put" /\ ~panicked) =>
                LET t        == partitions[partitionOfKey(ret.key)]
                    nBuckets == Len(t.buckets[1])
                IN  ~t.resizeInProgress =>
                        /\ t.nNodes <= 5 * nBuckets
                        /\ ~(initialBucketSize < t.nNodes /\ t.nNodes < nBuckets \div 4) )
    /\ [][ LET p == partitionOfKey(ret'.key)
           IN  ret'.op = "remove" =>
                    \/ ~partitions'[p].resizeInProgress
                    \/ /\ partitions[p].resizeInProgress
                       /\ cursor(partitions'[p]) = cursor(partitions[p]) + 1 ]_vars

\* A stale put has just ended the shrink from 64 to 32 buckets with 7 nodes
\* linked, and has begun the shrink to 16.
C15_Witness ==
    /\ ret.op = "put" /\ ~ret.rok
    /\ partitions[3].resizeInProgress
    /\ Len(partitions[3].buckets[1]) = 32 /\ Len(partitions[3].buckets[2]) = 16
    /\ partitions[3].nextResizeIndex = -1
    /\ partitions[3].nNodes = 7

\* The keys linked in one bucket.
keysOfBucket(chain) == {chain[j].key : j \in 1..Len(chain)}

\* What one put or remove on key k does to the migration of its partition,
\* from t to u, when a resize is in flight in t.
oneBucketMigrated(t, u, k, isPut) ==
    LET c        == cursor(t)
        moved    == keysOfBucket(t.buckets[1][c + 1])
        activeT  == keysIn(t.buckets[1])
        incomingT == keysIn(t.buckets[2])
    IN  IF c < Len(t.buckets[1]) - 1
        THEN /\ u.resizeInProgress
             /\ cursor(u) = c + 1
             /\ Len(u.buckets[1]) = Len(t.buckets[1])
             /\ Len(u.buckets[2]) = Len(t.buckets[2])
             /\ u.buckets[1][c + 1] = <<>>
             /\ keysIn(u.buckets[1]) \ {k} = (activeT \ moved) \ {k}
             /\ keysIn(u.buckets[2]) \ {k} = (incomingT \cup moved) \ {k}
        ELSE /\ Len(u.buckets[1]) = Len(t.buckets[2])
             /\ keysIn(u.buckets[1]) \ {k} = (activeT \cup incomingT) \ {k}
             /\ \/ /\ ~u.resizeInProgress
                   /\ u.buckets[2] = <<>>
                   /\ u.nextResizeIndex = -1
                \/ /\ isPut
                   /\ u.resizeInProgress
                   /\ cursor(u) = 0
                   /\ keysIn(u.buckets[2]) = {}

\* C16: a put or remove on a partition with a resize in flight migrates the
\* bucket of active at the cursor, and no other, and moves the cursor on by
\* one; a resize begins with the cursor at 0, so the one begun with B buckets
\* is completed (incoming promoted, the resize state cleared) by the B-th put or
\* remove after it, the one that finds the cursor at B - 1; get, containsKey
\* and size change nothing.  In the workload of SpecDeep, which inserts the
\* filler keys one after the other, the grow from 4 buckets that the 21st
\* insert of the partition begins is completed by the 25th.
C16_OneBucketPerWrite ==
    /\ [][ LET p == partitionOfKey(ret'.key)
           IN  ( /\ ret'.op \in {"put", "remove"}
                 /\ partitions[p].resizeInProgress )
               => oneBucketMigrated(partitions[p], partitions'[p], ret'.key,
                                    ret'.op = "put") ]_vars
    /\ [][ \A p \in DOMAIN partitions :
                (~partitions[p].resizeInProgress /\ partitions'[p].resizeInProgress)
                    => cursor(partitions'[p]) = 0 ]_vars
    /\ [][ ret'.op \in {"get", "containsKey", "size"} => partitions' = partitions ]_vars
    /\ [] ( dropped = 0 =>
                /\ loaded \in 22..25 =>
                        /\ partitions[3].resizeInProgress
                        /\ Len(partitions[3].buckets[1]) = 4
                        /\ cursor(partitions[3]) = loaded - 22
                /\ loaded \in 26..41 =>
                        /\ ~partitions[3].resizeInProgress
                        /\ Len(partitions[3].buckets[1]) = 8 )

\* A remove has just migrated the last of the 64 buckets: the partition has 32
\* buckets and no resize in flight.
C16_Witness ==
    /\ ret.op = "remove"
    /\ loaded = NLoadD /\ dropped = NDropD
    /\ ~partitions[3].resizeInProgress
    /\ Len(partitions[3].buckets[1]) = 32
    /\ partitions[3].buckets[2] = <<>>
    /\ partitions[3].nextResizeIndex = -1

\* C17: in every partition the incoming array exists exactly when a resize is
\* in flight, and then has twice or half as many buckets as active; while a
\* resize is in flight no other begins: from one call to the next the two
\* arrays keep their lengths, the cursor does not go back and incoming keeps
\* its entries and receives those of the migrated bucket (it is not allocated
\* anew), unless the call migrates the last bucket, which completes the resize
\* before the call's own trigger may begin the next.
C17_OneResizeAtATime ==
    /\ [] \A p \in DOMAIN partitions :
            LET t == partitions[p]
            IN  /\ t.resizeInProgress <=> t.buckets[2] # <<>>
                /\ t.resizeInProgress =>
                        \/ Len(t.buckets[2]) = 2 * Len(t.buckets[1])
                        \/ 2 * Len(t.buckets[2]) = Len(t.buckets[1])
                /\ ~t.resizeInProgress => t.nextResizeIndex = -1
    /\ [][ \A p \in DOMAIN partitions :
            LET t == partitions[p]
                u == partitions'[p]
            IN  (t.resizeInProgress /\ u.resizeInProgress /\ u # t) =>
                    \/ /\ Len(u.buckets[1]) = Len(t.buckets[1])
                       /\ Len(u.buckets[2]) = Len(t.buckets[2])
                       /\ cursor(u) = cursor(t) + 1
                       /\ (keysIn(t.buckets[2]) \cup keysOfBucket(t.buckets[1][cursor(t) + 1]))
                                \ {ret'.key} \subseteq keysIn(u.buckets[2])
                    \/ /\ cursor(t) = Len(t.buckets[1]) - 1
                       /\ Len(u.buckets[1]) = Len(t.buckets[2])
                       /\ cursor(u) = 0 ]_vars

\* The shrink from 64 to 32 buckets is half way.
C17_Witness ==
    /\ partitions[3].resizeInProgress
    /\ Len(partitions[3].buckets[1]) = 64
    /\ Len(partitions[3].buckets[2]) = 32
    /\ cursor(partitions[3]) >= 32

\* C18: between calls, nNodes of every partition is the number of nodes linked
\* in the chains of its two bucket arrays, whether they hold a pointer or not;
\* a remove leaves nNodes and the linked nodes' keys as they were, and so does
\* the migration step that a put or remove begins with (the nodes of the other
\* keys stay linked, in one array or the other).
C18_NodeCount ==
    /\ [] \A p \in DOMAIN partitions :
            partitions[p].nNodes = Len(linked(partitions[p]))
    /\ [][ LET p == partitionOfKey(ret'.key)
               t == partitions[p]
               u == partitions'[p]
           IN  /\ ret'.op = "remove" =>
                    /\ u.nNodes = t.nNodes
                    /\ keysIn(u.buckets[1]) \cup keysIn(u.buckets[2])
                            = keysIn(t.buckets[1]) \cup keysIn(t.buckets[2])
               /\ ret'.op = "put" =>
                    (keysIn(u.buckets[1]) \cup keysIn(u.buckets[2])) \ {ret'.key}
                        = (keysIn(t.buckets[1]) \cup keysIn(t.buckets[2])) \ {ret'.key} ]_vars

\* A remove has just cleared a pointer during the shrink from 64 buckets: the
\* 7 nodes counted are linked, some in active and some in incoming, and not
\* all of them hold a pointer.
C18_Witness ==
    /\ ret.op = "remove" /\ ret.rptr # NilPtr
    /\ partitions[3].resizeInProgress
    /\ Len(partitions[3].buckets[1]) = 64
    /\ partitions[3].nNodes = 7
    /\ keysIn(partitions[3].buckets[1]) # {}
    /\ keysIn(partitions[3].buckets[2]) # {}
    /\ liveNodes(partitions[3]) < 7

\* C19: a remove with a sequence number at least the one stored for its key
\* returns the pointer the node held, leaves the node linked with that pointer
\* cleared and its sequence number as it was, lowers nElements by one exactly
\* when the pointer was present and leaves nNodes and every other node as they
\* were; a remove with a lower sequence number, or on a key without a node,
\* returns an absent pointer and changes no node and no counter.
C19_RemoveTombstones ==
    [][ ret'.op = "remove" =>
            LET k == ret'.key
                p == partitionOfKey(k)
                t == partitions[p]
                u == partitions'[p]
            IN  IF hasEntry(partitions, k)
                    /\ ret'.seqNumber >= entryOf(partitions, k).seqNumber
                THEN LET nd == entryOf(partitions, k)
                     IN  /\ ret'.rptr = nd.ptr
                         /\ hasEntry(partitions', k)
                         /\ entryOf(partitions', k) = [nd EXCEPT !.ptr = NilPtr]
                         /\ nodeSet(u) \ {[nd EXCEPT !.ptr = NilPtr]} = nodeSet(t) \ {nd}
                         /\ u.nElements = IF nd.ptr # NilPtr
                                          THEN t.nElements - 1
                                          ELSE t.nElements
                         /\ u.nNodes = t.nNodes
                         /\ Len(linked(u)) = Len(linked(t))
                ELSE /\ ret'.rptr = NilPtr
                     /\ nodeSet(u) = nodeSet(t)
                     /\ Len(linked(u)) = Len(linked(t))
                     /\ u.nElements = t.nElements
                     /\ u.nNodes = t.nNodes ]_vars

\* A remove with the stored sequence number, 1 or higher, has just cleared the
\* pointer of "a" during a migration.
C19_Witness ==
    /\ ret.op = "remove" /\ ret.key = "a" /\ ret.rptr # NilPtr
    /\ ret.seqNumber >= 1
    /\ hasEntry(partitions, "a")
    /\ entryOf(partitions, "a") = [key |-> "a", seqNumber |-> ret.seqNumber, ptr |-> NilPtr]
    /\ partitions[3].resizeInProgress
    /\ partitions[3].nextResizeIndex >= 0

====
